---- MODULE Spec2Model ----
(***************************************************************************)
(* A model of logomaker's Logo class (src/Logo.py): the glyph layout done  *)
(* by the constructor, the styling operations, draw(), and the operations   *)
(* that require a drawn logo.                                               *)
(*                                                                          *)
(* Numbers.  Matrix values, vsep and all vertical coordinates are integers  *)
(* of one common unit; vsep is drawn from the even numbers so that         *)
(* vsep/2.0 is exact, and matrix values from the multiples of the number   *)
(* of characters so that a row mean is exact.  Colour channels and alpha    *)
(* are fixed-point numbers with denominator Scale (Scale stands for 1.0).   *)
(* Horizontal coordinates of a highlight rectangle, and its padding, are    *)
(* in half positions (X2 = 2*x), so that the code's .5 is the integer 1.    *)
(***************************************************************************)
EXTENDS Integers, Sequences, FiniteSets, TLC

VARIABLES
    pc,        \* "new": before Logo(...); "live": a Logo exists; "failed": the constructor raised
    matrix,    \* the Matrix object the caller passes to the constructor (its df)
    self,      \* the Logo's attributes
    axes,      \* the drawing surfaces: every Axes object and what is on it
    call,      \* the last operation called: its name, arguments, outcome, draws performed
    drawn_ok,  \* history: some draw() on this Logo has returned without error
    ncalls     \* operations called so far

vars == <<pc, matrix, self, axes, call, drawn_ok, ncalls>>

(* Bounds of the model. *)
MaxLen == 1      \* rows of a matrix in the layout specification
MaxAbs == 1      \* matrix values are k * C, k in -MaxAbs..MaxAbs
MaxSep == 1      \* vsep is 2 * k, k in -1..MaxSep
MaxCalls == 2    \* operations called on one Logo

(* 1.0 in the fixed point of colour channels and alpha. *)
Scale == 4

None == "None"

Abs(v) == IF v < 0 THEN -v ELSE v

Range(s) == {s[i] : i \in 1..Len(s)}

RECURSIVE SumSeq(_)
SumSeq(s) == IF Len(s) = 0 THEN 0 ELSE s[1] + SumSeq(Tail(s))

MinOf(S) == CHOOSE x \in S : \A y \in S : x <= y
MaxOf(S) == CHOOSE x \in S : \A y \in S : x >= y

(***************************************************************************)
(* The matrix: index (positions, in order), columns (characters, in       *)
(* order) and the values, df[<<p, c>>].                                     *)
(***************************************************************************)
Keys(index, columns) == {<<p, c>> : p \in Range(index), c \in Range(columns)}

Row(df, p, columns) == [i \in 1..Len(columns) |-> df[<<p, columns[i]>>]]

(* chars_to_colors_dict.get(key, 'gray') *)
chars_to_colors_dict(cs) ==
    IF cs = <<"A", "C", "G", "T">> \/ cs = <<"A", "C", "G", "U">> THEN "classic"
    ELSE IF cs = <<"A", "C", "D", "E", "F", "G", "H", "I", "K", "L",
                   "M", "N", "P", "Q", "R", "S", "T", "V", "W", "Y">>
         THEN "hydrophobicity"
    ELSE "gray"

(***************************************************************************)
(* lm_color.get_color_dict(color_scheme, chars, alpha=1): the character to *)
(* RGBA table of a colour scheme; it raises when some character has no     *)
(* resolvable colour.  Three schemes are modelled: 'gray' (one matplotlib  *)
(* colour for every character), 'classic' (A, C, G, T, U only) and a name  *)
(* that is no scheme, colour or colormap.                                   *)
(***************************************************************************)
ClassicRGB(c) ==
    CASE c = "A" -> <<0, Scale \div 2, 0>>
      [] c = "C" -> <<0, 0, Scale>>
      [] c = "G" -> <<Scale, Scale \div 2, 0>>
      [] OTHER   -> <<Scale, 0, 0>>

HasColor(color_scheme, c) ==
    CASE color_scheme = "gray"    -> TRUE
      [] color_scheme = "classic" -> c \in {"A", "C", "G", "T", "U"}
      [] OTHER                    -> FALSE

(* Whether get_color_dict raises. *)
Unresolvable(color_scheme, chars) == \E c \in Range(chars) : ~HasColor(color_scheme, c)

get_color_dict(color_scheme, chars) ==
    [c \in Range(chars) |->
        (IF color_scheme = "gray"
         THEN <<Scale \div 2, Scale \div 2, Scale \div 2>>
         ELSE ClassicRGB(c)) \o <<Scale>>]

(***************************************************************************)
(* The transforms of the constructor.                                       *)
(***************************************************************************)
Negated(df) == [k \in DOMAIN df |-> -df[k]]

MeanOfRow(df, p, columns) == SumSeq(Row(df, p, columns)) \div Len(columns)

Centered(df, columns) == [k \in DOMAIN df |-> df[k] - MeanOfRow(df, k[1], columns)]

(***************************************************************************)
(* _compute_characters: the layout of one position.                        *)
(***************************************************************************)
(* np.argsort(vs): the indices of vs in ascending order of value.  For the  *)
(* short rows of a logo numpy sorts by insertion, which keeps equal values  *)
(* in column order.                                                         *)
RECURSIVE Inserted(_, _, _)
Inserted(ordered, vs, i) ==
    IF ordered = <<>> THEN <<i>>
    ELSE IF vs[Head(ordered)] <= vs[i]
         THEN <<Head(ordered)>> \o Inserted(Tail(ordered), vs, i)
         ELSE <<i>> \o ordered

RECURSIVE ArgsortTo(_, _)
ArgsortTo(vs, n) == IF n = 0 THEN <<>> ELSE Inserted(ArgsortTo(vs, n - 1), vs, n)

argsort(vs) == ArgsortTo(vs, Len(vs))

RECURSIVE Taken(_, _, _)
Taken(s, ordered, n) ==
    IF n > Len(ordered) THEN <<>> ELSE <<s[ordered[n]]>> \o Taken(s, ordered, n + 1)

(* floor = sum((vs - vsep) * (vs < 0)) + vsep/2.0 *)
RECURSIVE SumBelow(_, _, _)
SumBelow(vs, vsep, n) ==
    IF n > Len(vs) THEN 0
    ELSE (IF vs[n] < 0 THEN vs[n] - vsep ELSE 0) + SumBelow(vs, vsep, n + 1)

InitialFloor(vs, vsep) == SumBelow(vs, vsep, 1) + vsep \div 2

(* ceiling = floor + abs(v) *)
CeilingSigned(floor, v) == floor + v

CeilingAbove(floor, v) == floor + Abs(v)

(* floor = ceiling + vsep *)
RaisedFloor(ceiling, vsep) == ceiling + vsep

(* flip = (v < 0 and self.flip_below) *)
FlipOf(v, flip_below) == v < 0 /\ flip_below

(* for n, v, c in zip(range(self.C), vs, cs): the glyphs from the n-th of   *)
(* the sorted row on, the n-th on the given floor.                          *)
RECURSIVE Stacked(_, _, _, _, _, _)
Stacked(S, p, vs, cs, n, floor) ==
    IF n > Len(vs) THEN <<>>
    ELSE LET ceiling == CeilingAbove(floor, vs[n])
         IN <<[p       |-> p,
               c       |-> cs[n],
               floor   |-> floor,
               ceiling |-> ceiling,
               color   |-> SubSeq(S.rgba_dict[cs[n]], 1, 3),
               alpha   |-> Scale,
               flip    |-> FlipOf(vs[n], S.flip_below)]>>
            \o Stacked(S, p, vs, cs, n + 1, RaisedFloor(ceiling, S.vsep))

(* The glyphs of position p, in the order they are stacked. *)
GlyphsAt(S, p) ==
    LET row     == Row(S.matrix_df, p, S.cs)
        ordered == argsort(row)
        vs      == Taken(row, ordered, 1)
        cs      == Taken(S.cs, ordered, 1)
    IN Stacked(S, p, vs, cs, 1, InitialFloor(vs, S.vsep))

(* glyph_df.loc[p, c] = glyph, for the glyphs gs *)
RECURSIVE Located(_, _)
Located(gs, n) ==
    IF n > Len(gs) THEN <<>>
    ELSE (<<gs[n].p, gs[n].c>> :> gs[n]) @@ Located(gs, n + 1)

(* for p in self.ps *)
RECURSIVE GlyphsFrom(_, _)
GlyphsFrom(S, i) ==
    IF i > Len(S.ps) THEN <<>>
    ELSE Located(GlyphsAt(S, S.ps[i]), 1) @@ GlyphsFrom(S, i + 1)

_compute_characters(S) == [S EXCEPT !.glyph_df = GlyphsFrom(S, 1)]

(* glyph_df.index, glyph_df.columns and glyph_list of the glyph table. *)
GlyphIndex(S) == {k[1] : k \in DOMAIN S.glyph_df}
GlyphColumns(S) == {k[2] : k \in DOMAIN S.glyph_df}
glyph_list(S) == {S.glyph_df[k] : k \in DOMAIN S.glyph_df}

(***************************************************************************)
(* The drawing surfaces.                                                    *)
(***************************************************************************)
Surfaces == {"gca", "ax1", "ax2"}

(* An Axes after clear(): nothing on it, the default y-limits (0, 1.0). *)
ClearedAxes ==
    [glyphs |-> {}, patches |-> <<>>, lines |-> 0, ylim |-> <<0, Scale>>,
     xticks |-> {}, spines |-> "default"]

(* ax.set_ylim([ymin, ymax]); matplotlib widens identical limits. *)
set_ylim(ymin, ymax) ==
    IF ymin = ymax THEN <<ymin - 1, ymax + 1>> ELSE <<ymin, ymax>>

(* What a call leaves behind: the Logo, the surfaces, "ok" or the exception   *)
(* raised, the draw() calls it started and those that returned.             *)
Outcome(S, A, err, ndraw, nok) ==
    [self |-> S, axes |-> A, err |-> err, ndraw |-> ndraw, nok |-> nok]

(* _update_ax *)
_update_ax(S, ax) == IF ax # None THEN [S EXCEPT !.ax = ax] ELSE S

(***************************************************************************)
(* draw(ax)                                                                 *)
(***************************************************************************)
(* for g in self.glyph_list: g.draw(self.ax)                                *)
(* The glyph table after the loop: the loop reads the records and assigns   *)
(* none.  RelaidGlyphs is a draw that lays the glyphs out anew.             *)
RelaidGlyphs(S) == _compute_characters(S).glyph_df

DrawnGlyphs(S) == S.glyph_df

draw(S, A, ax) ==
    LET S1 == _update_ax(S, ax)
        S2 == IF S1.ax = None THEN [S1 EXCEPT !.ax = "gca"] ELSE S1
        A1 == [A EXCEPT ![S2.ax] = ClearedAxes]
        A2 == [A1 EXCEPT ![S2.ax].glyphs = glyph_list(S2)]
        S3 == [S2 EXCEPT !.glyph_df = DrawnGlyphs(S2), !.has_been_drawn = TRUE]
    IN IF glyph_list(S2) = {}
       THEN \* min([]) of the x-limits raises
            Outcome(S3, A2, "ValueError", 1, 0)
       ELSE Outcome(S3,
                    [A2 EXCEPT ![S2.ax].ylim =
                        set_ylim(MinOf({g.floor : g \in glyph_list(S2)}),
                                 MaxOf({g.ceiling : g \in glyph_list(S2)}))],
                    "ok", 1, 1)

(***************************************************************************)
(* Logo.__init__                                                            *)
(***************************************************************************)
NoLogo == [ax |-> None, has_been_drawn |-> FALSE]

__init__(m, A, ax, negate, center, colors, flip_below, vsep, draw_now) ==
    LET cs       == m.columns
        colors1  == IF colors = None THEN chars_to_colors_dict(cs) ELSE colors
        df1      == IF negate THEN Negated(m.df) ELSE m.df
        \* matrix_df is the caller's table itself unless negation made a new one
        shared   == ~negate
        df2      == IF center THEN Centered(df1, cs) ELSE df1
        m1       == IF center /\ shared THEN [m EXCEPT !.df = df2] ELSE m
        failed   == Unresolvable(colors1, cs)
        rgba     == IF failed THEN <<>> ELSE get_color_dict(colors1, cs)
        S0       == [matrix_df |-> df2, L |-> Len(m.index), cs |-> cs, ps |-> m.index,
                     colors |-> colors1, ax |-> ax, negate |-> negate, center |-> center,
                     flip_below |-> flip_below, vsep |-> vsep, has_been_drawn |-> FALSE,
                     rgba_dict |-> rgba, glyph_df |-> <<>>]
    IN IF failed
       THEN [matrix |-> m1, out |-> Outcome(NoLogo, A, "ColorError", 0, 0)]
       ELSE LET S1 == _compute_characters(S0)
            IN [matrix |-> m1,
                out    |-> IF draw_now THEN draw(S1, A, None) ELSE Outcome(S1, A, "ok", 0, 0)]

(* The draw at the end of a styling call: draw() if draw_now. *)
DrawIf(draw_now, S, A) == IF draw_now THEN draw(S, A, None) ELSE Outcome(S, A, "ok", 0, 0)

(* Glyph.set_attributes(kwargs): the attributes named in kwargs are set. *)
NoKwargs == [a \in {} |-> 0]

set_attributes(g, kwargs) ==
    [g EXCEPT !.alpha = IF "alpha" \in DOMAIN kwargs THEN kwargs["alpha"] ELSE @,
              !.color = IF "color" \in DOMAIN kwargs THEN kwargs["color"] ELSE @,
              !.flip  = IF "flip" \in DOMAIN kwargs THEN kwargs["flip"] ELSE @]

(***************************************************************************)
(* style_glyphs(colors, draw_now, ax, kwargs)                             *)
(***************************************************************************)
style_glyphs(S, A, colors, draw_now, ax, kwargs) ==
    LET S1   == _update_ax(S, ax)
        S2   == IF colors # None THEN [S1 EXCEPT !.colors = colors] ELSE S1
    IN IF colors # None /\ Unresolvable(S2.colors, S2.cs)
       THEN Outcome(S2, A, "ColorError", 0, 0)
       ELSE LET S3 == IF colors # None
                      THEN [S2 EXCEPT !.rgba_dict = get_color_dict(S2.colors, S2.cs)]
                      ELSE S2
                S4 == [S3 EXCEPT !.glyph_df =
                         [k \in DOMAIN @ |->
                            LET g == set_attributes(@[k], kwargs)
                            IN IF colors # None
                               THEN [g EXCEPT !.color = SubSeq(S3.rgba_dict[g.c], 1, 3)]
                               ELSE g]]
            IN DrawIf(draw_now, S4, A)

(***************************************************************************)
(* style_glyphs_below(shade, fade, flip, draw_now, ax, kwargs)            *)
(***************************************************************************)
(* if v < 0 *)
IsBelowOrZero(v) == v <= 0

IsBelow(v) == v < 0

(* np.array(g.color) * (1.0 - shade) *)
Shaded(color, shade) == [i \in 1..Len(color) |-> (color[i] * (Scale - shade)) \div Scale]

(* g.alpha * (1.0 - fade) *)
Faded(alpha, fade) == (alpha * (Scale - fade)) \div Scale

style_glyphs_below(S, A, shade, fade, flip, draw_now, ax, kwargs) ==
    LET S1 == _update_ax(S, ax)
        S2 == [S1 EXCEPT !.glyph_df =
                 [k \in DOMAIN @ |->
                    IF IsBelow(S1.matrix_df[k])
                    THEN LET g == @[k]
                         IN set_attributes(
                                [g EXCEPT !.color = Shaded(g.color, shade),
                                          !.alpha = Faded(g.alpha, fade),
                                          !.flip  = flip],
                                kwargs)
                    ELSE @[k]]]
    IN DrawIf(draw_now, S2, A)

(***************************************************************************)
(* style_single_glyph(p, c, draw_now, ax, kwargs)                         *)
(***************************************************************************)
(* assert p in self.glyph_df.index; assert c in self.glyph_df.columns *)
IsGlyphRow(S, p, c) == p \in GlyphIndex(S)

IsGlyphKey(S, p, c) == p \in GlyphIndex(S) /\ c \in GlyphColumns(S)

style_single_glyph(S, A, p, c, draw_now, ax, kwargs) ==
    LET S1 == _update_ax(S, ax)
    IN IF ~IsGlyphKey(S1, p, c)
       THEN Outcome(S1, A, "AssertionError", 0, 0)
       ELSE DrawIf(draw_now,
                   [S1 EXCEPT !.glyph_df =
                      [k \in DOMAIN @ |->
                         IF k = <<p, c>> THEN set_attributes(@[k], kwargs) ELSE @[k]]],
                   A)

(***************************************************************************)
(* style_glyphs_in_sequence(sequence, draw_now, ax, kwargs)               *)
(***************************************************************************)
(* One call after another: the second is made on what the first left, and  *)
(* not at all if the first raised.                                          *)
Then(O1, O2) == [O2 EXCEPT !.ndraw = O1.ndraw + @, !.nok = O1.nok + @]

(* for i, p in enumerate(self.glyph_df.index):                              *)
(*     self.style_single_glyph(p, sequence[i], kwargs)                    *)
RECURSIVE StyleEach(_, _, _, _, _)
StyleEach(O, index, sequence, i, kwargs) ==
    IF O.err # "ok" \/ i > Len(index) THEN O
    ELSE StyleEach(
             Then(O, style_single_glyph(O.self, O.axes, index[i], sequence[i],
                                        TRUE, None, kwargs)),
             index, sequence, i + 1, kwargs)

(* The rows of glyph_df, in the order the layout added them. *)
GlyphIndexSeq(S) == IF DOMAIN S.glyph_df = {} THEN <<>> ELSE S.ps

style_glyphs_in_sequence(S, A, sequence, draw_now, ax, kwargs) ==
    LET S1 == _update_ax(S, ax)
    IN IF Len(sequence) # S1.L
       THEN Outcome(S1, A, "AssertionError", 0, 0)
       ELSE IF \E i \in 1..Len(sequence) : sequence[i] \notin Range(S1.cs)
       THEN Outcome(S1, A, "AssertionError", 0, 0)
       ELSE LET O == StyleEach(Outcome(S1, A, "ok", 0, 0), GlyphIndexSeq(S1),
                               sequence, 1, kwargs)
            IN IF O.err # "ok" THEN O
               ELSE Then(O, DrawIf(draw_now, O.self, O.axes))

(***************************************************************************)
(* highlight_position_range(pmin, pmax, padding, floor, ceiling)            *)
(* An optional argument is <<>> (None) or <<v>>.  padding2 is 2 * padding.  *)
(***************************************************************************)
(* x = pmin - .5 - padding, in half positions *)
RectXNoHalf(pmin, padding2) == 2 * pmin - padding2

RectX(pmin, padding2) == 2 * pmin - 1 - padding2

(* width = pmax - pmin + 1 + 2 padding, in half positions *)
RectWidth(pmin, pmax, padding2) == 2 * (pmax - pmin + 1) + 2 * padding2

highlight_position_range(S, A, pmin, pmax, padding2, floor, ceiling) ==
    IF ~S.has_been_drawn THEN Outcome(S, A, "AssertionError", 0, 0)
    ELSE LET ylim     == A[S.ax].ylim
             floor1   == IF floor = <<>> THEN ylim[1] ELSE floor[1]
             ceiling1 == IF ceiling = <<>> THEN ylim[2] ELSE ceiling[1]
             patch    == [x      |-> RectX(pmin, padding2),
                          y      |-> floor1,
                          width  |-> RectWidth(pmin, pmax, padding2),
                          height |-> ceiling1 - floor1]
         IN IF ~(floor1 < ceiling1) THEN Outcome(S, A, "AssertionError", 0, 0)
            ELSE IF ~(pmin <= pmax) THEN Outcome(S, A, "AssertionError", 0, 0)
            ELSE IF ~(padding2 >= -1) THEN Outcome(S, A, "AssertionError", 0, 0)
            ELSE Outcome(S, [A EXCEPT ![S.ax].patches = Append(@, patch)], "ok", 0, 0)

(* highlight_position(p, kwargs) *)
highlight_position(S, A, p, padding2, floor, ceiling) ==
    IF ~S.has_been_drawn THEN Outcome(S, A, "AssertionError", 0, 0)
    ELSE highlight_position_range(S, A, p, p, padding2, floor, ceiling)

(* draw_baseline() *)
draw_baseline(S, A) ==
    IF ~S.has_been_drawn THEN Outcome(S, A, "AssertionError", 0, 0)
    ELSE Outcome(S, [A EXCEPT ![S.ax].lines = @ + 1], "ok", 0, 0)

(* style_xticks(anchor, spacing) *)
style_xticks(S, A, anchor, spacing) ==
    IF ~S.has_been_drawn THEN Outcome(S, A, "AssertionError", 0, 0)
    ELSE IF Len(S.ps) = 0
    THEN \* min(self.ps) of no positions raises
         Outcome(S, A, "ValueError", 0, 0)
    ELSE LET p_min == MinOf(Range(S.ps))
             p_max == MaxOf(Range(S.ps))
         IN Outcome(S,
                    [A EXCEPT ![S.ax].xticks =
                        {p \in p_min..p_max : (p - anchor) % spacing = 0}],
                    "ok", 0, 0)

(* style_spines(visible) *)
style_spines(S, A, visible) ==
    IF ~S.has_been_drawn THEN Outcome(S, A, "AssertionError", 0, 0)
    ELSE Outcome(S, [A EXCEPT ![S.ax].spines = IF visible THEN "visible" ELSE "hidden"],
                 "ok", 0, 0)

(***************************************************************************)
(* The inputs the specifications draw from.                                 *)
(***************************************************************************)
PositionsOf(L) == [i \in 1..L |-> i - 1]

MatricesOver(columns, lengths, values) ==
    UNION {{[index |-> PositionsOf(L), columns |-> columns, df |-> f] :
              f \in [Keys(PositionsOf(L), columns) -> values]} : L \in lengths}

(* Layout: every matrix of at most MaxLen rows over three characters. *)
LayoutColumns == <<"A", "C", "G">>
LayoutMatrices ==
    MatricesOver(LayoutColumns, 0..MaxLen,
                 {Len(LayoutColumns) * k : k \in -MaxAbs..MaxAbs})
VSeps == {2 * k : k \in -1..MaxSep}

(* Life cycle: a matrix without rows and one of two rows with negative,    *)
(* zero and positive values.                                                *)
SampleColumns == <<"A", "C">>
SampleMatrices ==
    {[index |-> <<>>, columns |-> SampleColumns, df |-> <<>>],
     [index |-> <<0, 1>>, columns |-> SampleColumns,
      df |-> (<<0, "A">> :> -2) @@ (<<0, "C">> :> 2) @@
             (<<1, "A">> :> 0) @@ (<<1, "C">> :> 4)]}

AxArgs == {None, "ax2"}
HalfAlpha == [a \in {"alpha"} |-> Scale \div 2]
DrawArgs == {<<FALSE, None>>, <<TRUE, None>>, <<FALSE, "ax2">>}

(***************************************************************************)
(* The actions: one per operation of Logo.                                  *)
(***************************************************************************)
NoCall == [op |-> "none", args |-> <<>>, result |-> "ok", ndraw |-> 0]

Started(matrices) ==
    /\ pc = "new"
    /\ matrix \in matrices
    /\ self = NoLogo
    /\ axes = [s \in Surfaces |-> ClearedAxes]
    /\ call = NoCall
    /\ drawn_ok = FALSE
    /\ ncalls = 0

(* logo = Logo(matrix, ax, negate, center, colors, flip_below, vsep, draw_now) *)
Construct(axs, negates, centers, schemes, flips, vseps, draws) ==
    /\ pc = "new"
    /\ \E ax \in axs, negate \in negates, center \in centers, colors \in schemes,
          flip_below \in flips, vsep \in vseps, draw_now \in draws :
         \E R \in {__init__(matrix, axes, ax, negate, center, colors, flip_below,
                            vsep, draw_now)} :
         LET O == R.out
         IN /\ pc' = IF O.err = "ok" THEN "live" ELSE "failed"
            /\ matrix' = R.matrix
            /\ self' = IF O.err = "ok" THEN O.self ELSE NoLogo
            /\ axes' = O.axes
            /\ call' = [op |-> "__init__",
                        args |-> [ax |-> ax, negate |-> negate, center |-> center,
                                  colors |-> colors, flip_below |-> flip_below,
                                  vsep |-> vsep, draw_now |-> draw_now],
                        result |-> O.err, ndraw |-> O.ndraw]
            /\ drawn_ok' = (O.err = "ok" /\ O.nok > 0)
            /\ UNCHANGED ncalls

Live == pc = "live" /\ ncalls < MaxCalls

(* The call op(args) was made and left the outcome out. *)
Called(op, args, out) ==
    \E O \in {out} :
    /\ self' = O.self
    /\ axes' = O.axes
    /\ call' = [op |-> op, args |-> args, result |-> O.err, ndraw |-> O.ndraw]
    /\ drawn_ok' = (drawn_ok \/ O.nok > 0)
    /\ ncalls' = ncalls + 1
    /\ UNCHANGED <<pc, matrix>>

Draw ==
    /\ Live
    /\ \E ax \in AxArgs : Called("draw", [ax |-> ax], draw(self, axes, ax))

StyleGlyphs ==
    /\ Live
    /\ \E colors \in {None, "classic", "nosuch"}, d \in DrawArgs :
         Called("style_glyphs",
                [colors |-> colors, draw_now |-> d[1], ax |-> d[2]],
                style_glyphs(self, axes, colors, d[1], d[2], HalfAlpha))

(* shade and fade are drawn from the fractions the fixed point holds exactly *)
Exact(S, shade, fade) ==
    \A g \in glyph_list(S) :
        /\ \A i \in 1..Len(g.color) : (g.color[i] * (Scale - shade)) % Scale = 0
        /\ (g.alpha * (Scale - fade)) % Scale = 0

StyleGlyphsBelow ==
    /\ Live
    /\ \E shade \in {0, Scale \div 2, Scale}, fade \in {0, Scale \div 2},
          flip \in BOOLEAN, d \in {<<FALSE, None>>, <<TRUE, None>>} :
         /\ Exact(self, shade, fade)
         \* the redrawing call is made with one pair of fractions
         /\ d[1] => (shade = Scale \div 2 /\ fade = Scale \div 2)
         /\ Called("style_glyphs_below",
                   [shade |-> shade, fade |-> fade, flip |-> flip,
                    draw_now |-> d[1], ax |-> d[2]],
                   style_glyphs_below(self, axes, shade, fade, flip, d[1], d[2], NoKwargs))

StyleSingleGlyph ==
    /\ Live
    \* positions are 0..L-1: L is none
    /\ \E k \in {<<0, "A">>, <<0, "X">>, <<self.L, "A">>}, d \in DrawArgs :
         Called("style_single_glyph",
                [p |-> k[1], c |-> k[2], draw_now |-> d[1], ax |-> d[2]],
                style_single_glyph(self, axes, k[1], k[2], d[1], d[2], HalfAlpha))

(* Sequences of the logo's length and one shorter or longer, of the first  *)
(* character, and one of the logo's length ending in a character the       *)
(* matrix does not have.                                                    *)
SequenceArgs(S) ==
    LET a == S.cs[1]
    IN {[i \in 1..n |-> a] : n \in {m \in {S.L - 1, S.L, S.L + 1} : m >= 0}}
       \cup {[i \in 1..S.L |-> IF i = S.L THEN "X" ELSE a]}

StyleGlyphsInSequence ==
    /\ Live
    /\ \E sequence \in SequenceArgs(self), d \in DrawArgs :
         Called("style_glyphs_in_sequence",
                [sequence |-> sequence, draw_now |-> d[1], ax |-> d[2]],
                style_glyphs_in_sequence(self, axes, sequence, d[1], d[2], HalfAlpha))

(* <<pmin, pmax, padding2, floor, ceiling>>: the defaults at one position, *)
(* the least padding on a range, explicit extents, and calls that break    *)
(* pmin <= pmax, padding >= -0.5 or floor < ceiling.                        *)
HighlightArgs ==
    {<<2, 2, 0, <<>>, <<>> >>, <<1, 2, -1, <<>>, <<>> >>, <<1, 2, 1, <<-1>>, <<3>> >>,
     <<2, 1, 0, <<>>, <<>> >>, <<2, 2, -2, <<>>, <<>> >>, <<2, 2, 0, <<0>>, <<0>> >>,
     <<2, 2, 0, <<3>>, <<>> >>}

HighlightPositionRange ==
    /\ Live
    /\ \E a \in HighlightArgs :
         Called("highlight_position_range",
                [pmin |-> a[1], pmax |-> a[2], padding2 |-> a[3],
                 floor |-> a[4], ceiling |-> a[5]],
                highlight_position_range(self, axes, a[1], a[2], a[3], a[4], a[5]))

HighlightPosition ==
    /\ Live
    /\ Called("highlight_position", [p |-> 2],
              highlight_position(self, axes, 2, 0, <<>>, <<>>))

DrawBaseline ==
    /\ Live
    /\ Called("draw_baseline", <<>>, draw_baseline(self, axes))

StyleXticks ==
    /\ Live
    /\ Called("style_xticks", [anchor |-> 0, spacing |-> 1],
              style_xticks(self, axes, 0, 1))

StyleSpines ==
    /\ Live
    /\ \E visible \in BOOLEAN :
         Called("style_spines", [visible |-> visible], style_spines(self, axes, visible))

(***************************************************************************)
(* Spec: the life cycle of a Logo built from a sample matrix.               *)
(***************************************************************************)
Init == Started(SampleMatrices)

Next ==
    \/ Construct({None, "ax1"}, BOOLEAN, BOOLEAN, {None, "nosuch"}, {TRUE}, {0}, BOOLEAN)
    \/ Draw
    \/ StyleGlyphs
    \/ StyleGlyphsBelow
    \/ StyleSingleGlyph
    \/ StyleGlyphsInSequence
    \/ HighlightPositionRange
    \/ HighlightPosition
    \/ DrawBaseline
    \/ StyleXticks
    \/ StyleSpines

Spec == Init /\ [][Next]_vars

(***************************************************************************)
(* SpecLayout: the layout of every small matrix, for every vsep.            *)
(***************************************************************************)
(* The matrices are closed under negation, so negate adds no layout here;   *)
(* Spec constructs with and without it.                                     *)
InitLayout == Started(LayoutMatrices)

NextLayout == Construct({None}, {FALSE}, BOOLEAN, {None}, BOOLEAN, VSeps, {FALSE})

SpecLayout == InitLayout /\ [][NextLayout]_vars

(***************************************************************************)
(* The claims.                                                              *)
(***************************************************************************)
IsCall(op) == ncalls' = ncalls + 1 /\ call'.op = op

ValueOf(g) == self.matrix_df[<<g.p, g.c>>]
GlyphsOfRow(p) == {self.glyph_df[k] : k \in {j \in DOMAIN self.glyph_df : j[1] = p}}
HeightOfRow(p) ==
    SumSeq([i \in 1..Len(self.cs) |->
              self.glyph_df[<<p, self.cs[i]>>].ceiling - self.glyph_df[<<p, self.cs[i]>>].floor])
AbsOfRow(p) == SumSeq([i \in 1..Len(self.cs) |-> Abs(self.matrix_df[<<p, self.cs[i]>>])])

(* C1: for every row and every vsep >= 0 the glyphs of the row have         *)
(* pairwise non-overlapping extents [floor, ceiling], a glyph of smaller    *)
(* value lies below one of larger value, and the heights sum to the sum of  *)
(* the absolute values of the row.                                          *)
C1_StackedByValue ==
    (pc = "live" /\ self.vsep >= 0) =>
        \A p \in Range(self.ps) :
            /\ \A g \in GlyphsOfRow(p) : g.floor <= g.ceiling
            /\ \A g1, g2 \in GlyphsOfRow(p) :
                 /\ g1.c # g2.c => (g1.ceiling <= g2.floor \/ g2.ceiling <= g1.floor)
                 /\ ValueOf(g1) < ValueOf(g2) => g1.ceiling <= g2.floor
            /\ HeightOfRow(p) = AbsOfRow(p)

C1_Witness ==
    /\ pc = "live"
    /\ self.vsep > 0
    /\ \E p \in Range(self.ps) :
         \E g1, g2, g3 \in GlyphsOfRow(p) :
            ValueOf(g1) < 0 /\ ValueOf(g2) = 0 /\ ValueOf(g3) > 0

(* C2: in a row with a negative and a positive value and vsep > 0, the     *)
(* topmost negative glyph ends at -vsep/2 and the bottommost positive      *)
(* glyph starts at +vsep/2: the margin between them is vsep, centred on 0.  *)
C2_AxisMarginIsVsep ==
    (pc = "live" /\ self.vsep > 0) =>
        \A p \in Range(self.ps) :
            LET below == {g \in GlyphsOfRow(p) : ValueOf(g) < 0}
                above == {g \in GlyphsOfRow(p) : ValueOf(g) > 0}
            IN (below # {} /\ above # {}) =>
                  LET top    == MaxOf({g.ceiling : g \in below})
                      bottom == MinOf({g.floor : g \in above})
                  IN /\ bottom - top = self.vsep
                     /\ 2 * top = -self.vsep
                     /\ 2 * bottom = self.vsep

(* C3: has_been_drawn holds only after a draw() that returned, and an      *)
(* operation that needs a drawn logo fails unless one did.                  *)
GatedOps ==
    {"highlight_position", "highlight_position_range", "draw_baseline",
     "style_xticks", "style_spines"}

C3_GatedNeedCompletedDraw ==
    /\ self.has_been_drawn => drawn_ok
    /\ (call.op \in GatedOps /\ ~drawn_ok) => call.result = "AssertionError"

(* C4: style_single_glyph(p, c) with p no row or c no column of the matrix *)
(* fails with the lookup error and leaves every glyph record as it was.     *)
C4_BadKeyFailsKeepsGlyphs ==
    [][(/\ IsCall("style_single_glyph")
        /\ (call'.args.p \notin Range(self.ps) \/ call'.args.c \notin Range(self.cs)))
       => (call'.result = "AssertionError" /\ self'.glyph_df = self.glyph_df)]_vars

C4_Witness ==
    /\ call.op = "style_single_glyph"
    /\ call.args.p \in Range(self.ps)
    /\ call.args.c \notin Range(self.cs)
    /\ call.result = "AssertionError"
    /\ DOMAIN self.glyph_df # {}

(* C5: style_glyphs_in_sequence with a sequence of the wrong length or     *)
(* with a character the matrix does not have fails and changes nothing:     *)
(* no glyph record, not ax, and no draw is made.                            *)
BadSequence(S, sequence) ==
    \/ Len(sequence) # Len(S.ps)
    \/ \E i \in 1..Len(sequence) : sequence[i] \notin Range(S.cs)

C5_BadSequenceMutatesNothing ==
    [][(IsCall("style_glyphs_in_sequence") /\ BadSequence(self, call'.args.sequence))
       => (/\ call'.result = "AssertionError"
           /\ self'.glyph_df = self.glyph_df
           /\ self'.ax = self.ax
           /\ self'.has_been_drawn = self.has_been_drawn
           /\ call'.ndraw = 0)]_vars

(* C6: Logo(..., vsep < 0) fails: no Logo, no glyphs, nothing drawn.        *)
C6_NegativeGapRejected ==
    (call.op = "__init__" /\ call.args.vsep < 0) =>
        (pc = "failed" /\ call.result # "ok" /\ call.ndraw = 0)

(* C7: style_glyphs(colors = X) with X unresolvable fails and leaves        *)
(* colors, rgba_dict, ax and every glyph's colour as they were.             *)
C7_BadColorsMutateNothing ==
    [][(/\ IsCall("style_glyphs")
        /\ call'.args.colors # None
        /\ Unresolvable(call'.args.colors, self.cs))
       => (/\ call'.result = "ColorError"
           /\ self'.colors = self.colors
           /\ self'.rgba_dict = self.rgba_dict
           /\ self'.ax = self.ax
           /\ \A k \in DOMAIN self.glyph_df :
                 self'.glyph_df[k].color = self.glyph_df[k].color)]_vars

(* C8: a styling call that succeeds with draw_now = False draws nothing:    *)
(* no draw(), no surface touched, has_been_drawn as before.                 *)
StylingOps ==
    {"style_glyphs", "style_glyphs_below", "style_single_glyph",
     "style_glyphs_in_sequence"}

C8_NoDrawWithoutDrawNow ==
    [][(/\ ncalls' = ncalls + 1
        /\ call'.op \in StylingOps
        /\ ~call'.args.draw_now
        /\ call'.result = "ok")
       => (/\ call'.ndraw = 0
           /\ axes' = axes
           /\ self'.has_been_drawn = self.has_been_drawn)]_vars

(* C9: style_glyphs_below(shade, fade, flip) gives every glyph of value    *)
(* < 0 the colour old * (1 - shade), the alpha old * (1 - fade) and the    *)
(* flip flag flip, and leaves every glyph of value >= 0 as it was.          *)
C9_BelowStylesNegativeOnly ==
    [][IsCall("style_glyphs_below")
       => /\ DOMAIN self'.glyph_df = DOMAIN self.glyph_df
          /\ \A k \in DOMAIN self.glyph_df :
               LET old == self.glyph_df[k]
                   new == self'.glyph_df[k]
               IN IF self.matrix_df[k] < 0
                  THEN /\ \A i \in 1..3 :
                            new.color[i] * Scale = old.color[i] * (Scale - call'.args.shade)
                       /\ new.alpha * Scale = old.alpha * (Scale - call'.args.fade)
                       /\ new.flip = call'.args.flip
                       /\ new.floor = old.floor /\ new.ceiling = old.ceiling
                       /\ new.p = old.p /\ new.c = old.c
                  ELSE new = old]_vars

C9_Witness ==
    /\ call.op = "style_glyphs_below"
    /\ call.args.shade = Scale \div 2
    /\ call.args.fade = Scale \div 2
    /\ \E k1, k2, k3 \in DOMAIN self.glyph_df :
          /\ self.matrix_df[k1] < 0 /\ self.matrix_df[k2] = 0 /\ self.matrix_df[k3] > 0
          /\ self.glyph_df[k1].alpha = Scale \div 2
          /\ self.glyph_df[k2].alpha = Scale

(* C10: on a rendered logo highlight_position_range(pmin, pmax, padding)   *)
(* adds one rectangle from pmin - 0.5 - padding to pmax + 0.5 + padding     *)
(* and from floor to ceiling, which default to the y-limits.                *)
Rendered == self.has_been_drawn /\ drawn_ok

FloorGiven(a) == IF a.floor = <<>> THEN axes[self.ax].ylim[1] ELSE a.floor[1]
CeilingGiven(a) == IF a.ceiling = <<>> THEN axes[self.ax].ylim[2] ELSE a.ceiling[1]

(* One rectangle more on the Logo's surface, of the extents asked for. *)
OneRectangleAdded(a) ==
    /\ call'.result = "ok"
    /\ self'.ax = self.ax
    /\ Len(axes'[self.ax].patches) = Len(axes[self.ax].patches) + 1
    /\ SubSeq(axes'[self.ax].patches, 1, Len(axes[self.ax].patches)) = axes[self.ax].patches
    /\ LET r == axes'[self.ax].patches[Len(axes'[self.ax].patches)]
       IN /\ r.x = 2 * a.pmin - 1 - a.padding2
          /\ r.x + r.width = 2 * a.pmax + 1 + a.padding2
          /\ r.y = FloorGiven(a)
          /\ r.y + r.height = CeilingGiven(a)
    /\ \A s \in Surfaces \ {self.ax} : axes'[s] = axes[s]

(* The claim as stated: pmin <= pmax and padding >= -0.5 are enough. *)
C10_AsStated ==
    [][(/\ IsCall("highlight_position_range")
        /\ Rendered
        /\ call'.args.pmin <= call'.args.pmax
        /\ call'.args.padding2 >= -1)
       => OneRectangleAdded(call'.args)]_vars

(* C10, amended: floor < ceiling is needed too. *)
C10_RectangleAdded ==
    [][(/\ IsCall("highlight_position_range")
        /\ Rendered
        /\ call'.args.pmin <= call'.args.pmax
        /\ call'.args.padding2 >= -1
        /\ FloorGiven(call'.args) < CeilingGiven(call'.args))
       => OneRectangleAdded(call'.args)]_vars

C10_Witness ==
    /\ call.op = "highlight_position_range"
    /\ call.result = "ok"
    /\ drawn_ok
    /\ call.args.pmin = 2 /\ call.args.pmax = 2 /\ call.args.padding2 = 0
    /\ call.args.floor = <<>>
    /\ \E i \in 1..Len(axes[self.ax].patches) :
          LET r == axes[self.ax].patches[i]
          IN /\ r.x = 3 /\ r.x + r.width = 5
             /\ <<r.y, r.y + r.height>> = axes[self.ax].ylim

(* C11: draw() changes no glyph record: after any styling made with         *)
(* draw_now = False, and after any earlier draw, every glyph has the floor, *)
(* ceiling, color, alpha and flip after draw() that it had before, and the  *)
(* glyphs put on the surface are those records.                             *)
C11_DrawKeepsGlyphs ==
    [][IsCall("draw")
       => /\ DOMAIN self'.glyph_df = DOMAIN self.glyph_df
          /\ \A k \in DOMAIN self.glyph_df :
               LET old == self.glyph_df[k]
                   new == self'.glyph_df[k]
               IN /\ new.floor = old.floor /\ new.ceiling = old.ceiling
                  /\ new.color = old.color /\ new.alpha = old.alpha
                  /\ new.flip = old.flip
          /\ axes'[self'.ax].glyphs = glyph_list(self)]_vars

(* A draw() that returned, of a logo one of whose glyphs was styled without *)
(* drawing: the styled record is kept and is on the surface.                *)
C11_Witness ==
    /\ call.op = "draw"
    /\ call.result = "ok"
    /\ \E g \in glyph_list(self) :
          /\ g.alpha = Scale \div 2
          /\ g \in axes[self.ax].glyphs
    /\ \E g \in glyph_list(self) : g.alpha = Scale

(* C12: Logo(matrix, negate, center) leaves the values of the caller's      *)
(* Matrix object as they were, for every combination of negate and center.  *)
C12_ConstructKeepsMatrix ==
    [][(pc = "new" /\ call'.op = "__init__") => matrix' = matrix]_vars

====
